---- MODULE Spec2Model ----
(***************************************************************************)
(* Model of utils/stream_handler.py: the StreamHandler that renders an     *)
(* agent's response stream.  Every handler is an operator from a handler   *)
(* state (a record of the object's fields plus the two collaborators it    *)
(* writes to, the console and the persistence sink) to the state after     *)
(* the call; every action applies one handler to the current state.        *)
(*                                                                         *)
(* Python values are represented as follows.                               *)
(*   str                 a TLA+ string                                     *)
(*   list of str         a sequence of strings                             *)
(*   OrderedDict         a sequence of [key, val] records, insertion order *)
(*   dict                a function on its keys                            *)
(*   JSON value / None   a record tagged by t: "str", "int", "None"        *)
(*   Live | None         NoLive or the record built by Live                *)
(*   JSON text           a record [raw, wf, data]: the text, whether       *)
(*                       json.loads accepts it, and the dict it yields     *)
(***************************************************************************)
EXTENDS Integers, Sequences, FiniteSets, TLC

\* ------------------------------------------------------------------ bounds

\* number of operations (events and calls of finalize) in one behaviour of
\* Spec, SpecTools, SpecText, SpecThinkAnswer and SpecMixed
MaxEvents == 3
MaxToolEvents == 5
MaxTextEvents == 4
MaxThinkAnswerEvents == 5
MaxMixedEvents == 4

\* number of tool events in one behaviour of SpecResults
MaxResultEvents == 4

\* number of operations (events and calls of finalize or reset) in one
\* behaviour of SpecReset
MaxResetEvents == 4

\* number of operations in one behaviour of SpecEmpty
MaxEmptyEvents == 4

\* number of operations in one behaviour of SpecOrder
MaxOrderEvents == 4

\* in SpecMain: number of steps of main()'s loop in one behaviour, and number
\* of messages it submits to the agent
MaxMainSteps == 6
MaxTurns == 2

\* ------------------------------------------------------- program constants

ResultDisplayCap == 1000
TaskDisplayCap == 200
PreviewDisplayCap == 500

\* --------------------------------------------------------- Python helpers

PyNone == [t |-> "None"]
PyString(x) == [t |-> "str", s |-> x]
PyInt(x) == [t |-> "int", n |-> x]

\* str(v) of a JSON value
PyStr(v) ==
    CASE v.t = "str" -> v.s
      [] v.t = "int" -> ToString(v.n)
      [] v.t = "None" -> "None"

\* d.get(k, default) on a dict given as a record
DictGet(d, k, default) == IF k \in DOMAIN d THEN d[k] ELSE default

EmptyDict == [k \in {} |-> PyNone]
DictSet(d, k, v) == [x \in (DOMAIN d) \cup {k} |-> IF x = k THEN v ELSE d[x]]
DictDel(d, k) == [x \in (DOMAIN d) \ {k} |-> d[x]]

\* OrderedDict
OdHas(d, k) == \E i \in 1..Len(d) : d[i].key = k
OdIndex(d, k) == CHOOSE i \in 1..Len(d) : d[i].key = k
OdGet(d, k) == d[OdIndex(d, k)].val
OdSet(d, k, v) ==
    IF OdHas(d, k) THEN [d EXCEPT ![OdIndex(d, k)].val = v]
    ELSE Append(d, [key |-> k, val |-> v])
OdKeys(d) == {d[i].key : i \in 1..Len(d)}

\* "".join(buffer)
RECURSIVE Join(_)
Join(buffer) == IF buffer = <<>> THEN "" ELSE Head(buffer) \o Join(Tail(buffer))

\* json.dumps(args, ensure_ascii=False, indent=2) of a JSON object given as a
\* sequence of <<key, string value>> pairs
RECURSIVE DumpsItems(_)
DumpsItems(items) ==
    IF items = <<>> THEN ""
    ELSE "  \"" \o Head(items)[1] \o "\": \"" \o Head(items)[2] \o "\""
         \o (IF Tail(items) = <<>> THEN "\n" ELSE ",\n")
         \o DumpsItems(Tail(items))

JsonDumps(args) == IF args = <<>> THEN "{}" ELSE "{\n" \o DumpsItems(args) \o "}"

\* text[:cap] + marker if len(text) > cap else text
\* faulty variant: a text as long as the cap is cut too
Truncate_atcap(text, cap, marker) ==
    IF Len(text) >= cap THEN SubSeq(text, 1, cap) \o marker ELSE text

Truncate(text, cap, marker) ==
    IF Len(text) > cap THEN SubSeq(text, 1, cap) \o marker ELSE text

\* ------------------------------------------------------------------ state

VARIABLES
    tool_states,      \* self.tool_states: OrderedDict id -> record
    pending_results,  \* self.pending_results: dict id -> JSON value
    thinking_buffer,  \* self.thinking_buffer
    answer_buffer,    \* self.answer_buffer
    current_state,    \* self.current_state
    current_live,     \* self.current_live
    tools_live,       \* self.tools_live
    console,          \* what self.console was asked to do, in order
    sink,             \* the calls of self.save_content, in order
    completed,        \* ids whose record was passed to _print_tool_complete, in order
    received,         \* the text events the stream has delivered, in order
    seen,             \* per tool id: the call events delivered and, in order, the results delivered
    last,             \* the operation performed last
    steps,            \* number of operations performed
    pc,               \* where main()'s loop is: "prompt", "streaming", "confirm" or "done"
    turns,            \* number of StreamHandler objects main() has constructed
    submitted,        \* the messages main() has passed to ChatStream, in order
    arrived_at,       \* in SpecOrder: for each entry of received, the step that delivered it
    saved_at          \* in SpecOrder: for each entry of sink, the step that made the call

vars == <<tool_states, pending_results, thinking_buffer, answer_buffer,
          current_state, current_live, tools_live, console, sink,
          completed, received, seen, last, steps, pc, turns, submitted,
          arrived_at, saved_at>>

NoState == "None"
NoLive == [started |-> FALSE]
Live(renderable, transient) ==
    [started |-> TRUE, renderable |-> renderable, transient |-> transient,
     refresh_per_second |-> 12]

\* the handler as one value
Self ==
    [tool_states |-> tool_states, pending_results |-> pending_results,
     thinking_buffer |-> thinking_buffer, answer_buffer |-> answer_buffer,
     current_state |-> current_state, current_live |-> current_live,
     tools_live |-> tools_live, console |-> console, sink |-> sink,
     completed |-> completed]

\* StreamHandler.__init__
Fresh ==
    [tool_states |-> <<>>, pending_results |-> EmptyDict,
     thinking_buffer |-> <<>>, answer_buffer |-> <<>>,
     current_state |-> NoState, current_live |-> NoLive,
     tools_live |-> NoLive, console |-> <<>>, sink |-> <<>>,
     completed |-> <<>>]

\* ------------------------------------------------------ the collaborators

ConsolePrint(s, panel) ==
    [s EXCEPT !.console = Append(@, [op |-> "print", panel |-> panel])]

SaveContent(s, category, payload) ==
    [s EXCEPT !.sink = Append(@, [category |-> category, payload |-> payload])]

\* ----------------------------------------------------------- live regions

\* faulty variant: a new region is started whether or not one is active
update_live_again(s, renderable) ==
    [s EXCEPT !.current_live = Live(renderable, FALSE),
              !.console = Append(@, [op |-> "live_start", region |-> "content"])]

update_live(s, renderable) ==
    IF s.current_live = NoLive
    THEN [s EXCEPT !.current_live = Live(renderable, FALSE),
                   !.console = Append(@, [op |-> "live_start", region |-> "content"])]
    ELSE [s EXCEPT !.current_live.renderable = renderable]

stop_current_live(s) ==
    IF s.current_live # NoLive
    THEN [s EXCEPT !.current_live = NoLive,
                   !.console = Append(@, [op |-> "live_stop", region |-> "content"])]
    ELSE s

NameDisplay(state) ==
    LET subagent == DictGet(state, "subagent", "")
    IN IF subagent # "" THEN "[" \o subagent \o "] " \o state.name ELSE state.name

RECURSIVE PendingPanels(_)
PendingPanels(d) ==
    IF d = <<>> THEN <<>>
    ELSE (IF Head(d).val.status = "pending"
          THEN << [kind |-> "tool_pending", name |-> NameDisplay(Head(d).val),
                   args |-> Head(d).val.args_str] >>
          ELSE <<>>) \o PendingPanels(Tail(d))

\* the Group of panels, or <<>> for None
render_pending_tools(s) == PendingPanels(s.tool_states)

\* faulty variant: the tool region is left as it is
stop_tools_live_skip(s) == s

stop_tools_live(s) ==
    IF s.tools_live # NoLive
    THEN [s EXCEPT !.tools_live = NoLive,
                   !.console = Append(@, [op |-> "live_stop", region |-> "tools"])]
    ELSE s

update_tools_live(s) ==
    LET pending_content == render_pending_tools(s)
    IN IF pending_content = <<>> THEN stop_tools_live(s)
       ELSE IF s.tools_live = NoLive
       THEN [s EXCEPT !.tools_live = Live(pending_content, TRUE),
                      !.console = Append(@, [op |-> "live_start", region |-> "tools"])]
       ELSE [s EXCEPT !.tools_live.renderable = pending_content]

\* ------------------------------------------------------ state transitions

\* faulty variant: the thinking buffer is saved but not cleared
save_and_clear_buffers_keep(s, think_type, answer_type) ==
    LET s1 == IF s.thinking_buffer # <<>>
              THEN SaveContent(s, think_type, PyString(Join(s.thinking_buffer)))
              ELSE s
    IN IF s1.answer_buffer # <<>>
       THEN [SaveContent(s1, answer_type, PyString(Join(s1.answer_buffer)))
                 EXCEPT !.answer_buffer = <<>>]
       ELSE s1

save_and_clear_buffers(s, think_type, answer_type) ==
    LET s1 == IF s.thinking_buffer # <<>>
              THEN [SaveContent(s, think_type, PyString(Join(s.thinking_buffer)))
                        EXCEPT !.thinking_buffer = <<>>]
              ELSE s
    IN IF s1.answer_buffer # <<>>
       THEN [SaveContent(s1, answer_type, PyString(Join(s1.answer_buffer)))
                 EXCEPT !.answer_buffer = <<>>]
       ELSE s1

ToolPhases == {"tool_call", "tool_result", "sub_agent_tool_call", "sub_agent_tool_result"}

\* faulty variant: the tool region is left as it is
transition_from_tool_state_skip(s) == s

transition_from_tool_state(s) ==
    IF s.current_state \in ToolPhases THEN stop_tools_live(s) ELSE s

transition_from_content_state(s, target_state, think_type, answer_type) ==
    LET s1 == transition_from_tool_state(s)
    IN IF s1.current_state # target_state /\ s1.current_live # NoLive
       THEN stop_current_live(save_and_clear_buffers(s1, think_type, answer_type))
       ELSE s1

\* --------------------------------------------------------- event handlers

ThinkingPanel(title, buffer) == [kind |-> "thinking", title |-> title, body |-> Join(buffer)]
AnswerPanel(title, buffer) == [kind |-> "answer", title |-> title, markdown |-> Join(buffer)]

handle_model_thinking(s, content) ==
    LET s1 == transition_from_content_state(s, "model_thinking", "think", "answer")
        s2 == [s1 EXCEPT !.current_state = "model_thinking",
                         !.thinking_buffer = Append(@, content)]
    IN update_live(s2, ThinkingPanel("Model Thinking", s2.thinking_buffer))

\* faulty variant: the fragment is appended before the previous phase is flushed
handle_model_answer_late(s, content) ==
    LET s1 == [s EXCEPT !.answer_buffer = Append(@, content)]
        s2 == [transition_from_content_state(s1, "model_answer", "think", "answer")
                  EXCEPT !.current_state = "model_answer"]
    IN update_live(s2, AnswerPanel("Model Answer", s2.answer_buffer))

handle_model_answer(s, content) ==
    LET s1 == transition_from_content_state(s, "model_answer", "think", "answer")
        s2 == [s1 EXCEPT !.current_state = "model_answer",
                         !.answer_buffer = Append(@, content)]
    IN update_live(s2, AnswerPanel("Model Answer", s2.answer_buffer))

\* faulty variant: the panel is printed and nothing is saved
print_tool_complete_quiet(s, state) ==
    LET result_str == Truncate(PyStr(DictGet(state, "result", PyString(""))),
                               ResultDisplayCap, "\n... (truncated)")
        subagent == DictGet(state, "subagent", "")
        title_prefix == IF subagent # "" THEN subagent \o ": " ELSE ""
        panel == [kind |-> "tool_complete", name |-> NameDisplay(state),
                  args |-> state.args_str, result |-> result_str,
                  title |-> title_prefix \o state.name \o " - Complete"]
    IN ConsolePrint(s, panel)

print_tool_complete(s, state) ==
    LET result_str == Truncate(PyStr(DictGet(state, "result", PyString(""))),
                               ResultDisplayCap, "\n... (truncated)")
        subagent == DictGet(state, "subagent", "")
        title_prefix == IF subagent # "" THEN subagent \o ": " ELSE ""
        panel == [kind |-> "tool_complete", name |-> NameDisplay(state),
                  args |-> state.args_str, result |-> result_str,
                  title |-> title_prefix \o state.name \o " - Complete"]
    IN SaveContent(ConsolePrint(s, panel), "tool_call",
                   [t |-> "dict", name |-> state.name, args_str |-> state.args_str])

\* the call self._print_tool_complete(self.tool_states[tool_id])
PrintCompleteOf(s, tool_id) ==
    [print_tool_complete(s, OdGet(s.tool_states, tool_id))
        EXCEPT !.completed = Append(@, tool_id)]

\* faulty variant: the cached payload is stored as it is, without str()
StoreCall_raw(s, tool_id, record) ==
    LET s1 == [s EXCEPT !.tool_states = OdSet(@, tool_id, record)]
    IN IF tool_id \in DOMAIN s1.pending_results
       THEN LET done == [record EXCEPT !.status = "complete",
                                       !.result = s1.pending_results[tool_id]]
                s2 == [s1 EXCEPT !.tool_states = OdSet(@, tool_id, done),
                                 !.pending_results = DictDel(@, tool_id)]
            IN PrintCompleteOf(stop_tools_live(s2), tool_id)
       ELSE update_tools_live(s1)

\* faulty variant: the cached payload is used but stays in the cache
StoreCall_keep(s, tool_id, record) ==
    LET s1 == [s EXCEPT !.tool_states = OdSet(@, tool_id, record)]
    IN IF tool_id \in DOMAIN s1.pending_results
       THEN LET done == [record EXCEPT !.status = "complete",
                                       !.result = PyString(PyStr(s1.pending_results[tool_id]))]
                s2 == [s1 EXCEPT !.tool_states = OdSet(@, tool_id, done)]
            IN PrintCompleteOf(stop_tools_live(s2), tool_id)
       ELSE update_tools_live(s1)

\* lines 195-209 and 369-384: store the record, then complete it from the
\* pending-result cache or show it as pending
StoreCall(s, tool_id, record) ==
    LET s1 == [s EXCEPT !.tool_states = OdSet(@, tool_id, record)]
    IN IF tool_id \in DOMAIN s1.pending_results
       THEN LET done == [record EXCEPT !.status = "complete",
                                       !.result = PyString(PyStr(s1.pending_results[tool_id]))]
                s2 == [s1 EXCEPT !.tool_states = OdSet(@, tool_id, done),
                                 !.pending_results = DictDel(@, tool_id)]
            IN PrintCompleteOf(stop_tools_live(s2), tool_id)
       ELSE update_tools_live(s1)

\* faulty variant: a result that finds no record is dropped
StoreResult_drop(s, tool_id, tool_result) ==
    IF OdHas(s.tool_states, tool_id)
    THEN LET done == [OdGet(s.tool_states, tool_id)
                        EXCEPT !.status = "complete",
                               !.result = PyString(PyStr(tool_result))]
             s1 == [s EXCEPT !.tool_states = OdSet(@, tool_id, done)]
         IN update_tools_live(PrintCompleteOf(stop_tools_live(s1), tool_id))
    ELSE s

\* lines 218-229 and 393-404: complete the record or cache the result
\* faulty variant: the result is cached also when it completes a record
StoreResult_also_cache(s, tool_id, tool_result) ==
    LET cached == [s EXCEPT !.pending_results = DictSet(@, tool_id, tool_result)]
    IN IF OdHas(s.tool_states, tool_id)
       THEN LET done == [OdGet(s.tool_states, tool_id)
                           EXCEPT !.status = "complete",
                                  !.result = PyString(PyStr(tool_result))]
                s1 == [cached EXCEPT !.tool_states = OdSet(@, tool_id, done)]
            IN update_tools_live(PrintCompleteOf(stop_tools_live(s1), tool_id))
       ELSE cached

StoreResult(s, tool_id, tool_result) ==
    IF OdHas(s.tool_states, tool_id)
    THEN LET done == [OdGet(s.tool_states, tool_id)
                        EXCEPT !.status = "complete",
                               !.result = PyString(PyStr(tool_result))]
             s1 == [s EXCEPT !.tool_states = OdSet(@, tool_id, done)]
         IN update_tools_live(PrintCompleteOf(stop_tools_live(s1), tool_id))
    ELSE [s EXCEPT !.pending_results = DictSet(@, tool_id, tool_result)]

ErrorPanel(text) == [kind |-> "error", text |-> text]

handle_tool_call(s, content) ==
    LET s1 == IF s.current_state \notin {"tool_call", "tool_result"}
                 /\ s.current_live # NoLive
              THEN stop_current_live(save_and_clear_buffers(s, "think", "answer"))
              ELSE s
        s2 == [s1 EXCEPT !.current_state = "tool_call"]
    IN IF ~content.wf
       THEN ConsolePrint(s2, ErrorPanel("Error parsing tool call: " \o content.raw))
       ELSE LET tool_data == content.data
                tool_id == DictGet(tool_data, "id", "")
                record == [name |-> DictGet(tool_data, "name", ""),
                           args_str |-> JsonDumps(DictGet(tool_data, "args", <<>>)),
                           status |-> "pending",
                           result |-> PyNone]
            IN StoreCall(s2, tool_id, record)

handle_tool_result(s, content) ==
    LET s1 == [s EXCEPT !.current_state = "tool_result"]
    IN IF ~content.wf
       THEN ConsolePrint(s1, ErrorPanel("Error parsing tool result: " \o content.raw))
       ELSE LET result_data == content.data
                tool_id == DictGet(result_data, "id", "")
                tool_result == DictGet(result_data, "content", PyString(content.raw))
            IN StoreResult(s1, tool_id, tool_result)

handle_sub_agent_start(s, response) ==
    LET subagent_name == DictGet(response, "subagent", "general")
        task_desc == DictGet(response, "task", "")
        s1 == IF s.current_state \notin {"tool_call", "tool_result"}
                 /\ s.current_live # NoLive
              THEN stop_current_live(save_and_clear_buffers(s, "think", "answer"))
              ELSE s
        s2 == [stop_tools_live(s1) EXCEPT !.current_state = "sub_agent"]
    IN ConsolePrint(s2, [kind |-> "sub_agent_start", name |-> subagent_name,
                         task |-> Truncate(task_desc, TaskDisplayCap, "...")])

\* faulty variant: the preview is saved in place of the full content
handle_sub_agent_end_preview(s, content) ==
    LET s1 == IF s.current_live # NoLive
              THEN stop_current_live(
                       save_and_clear_buffers(s, "sub_agent_think", "sub_agent_answer"))
              ELSE s
        s2 == stop_tools_live(s1)
        result_preview == Truncate(content, PreviewDisplayCap, "...")
    IN SaveContent(ConsolePrint(s2, [kind |-> "sub_agent_complete",
                                     markdown |-> result_preview]),
                   "sub_agent", PyString(result_preview))

handle_sub_agent_end(s, content) ==
    LET s1 == IF s.current_live # NoLive
              THEN stop_current_live(
                       save_and_clear_buffers(s, "sub_agent_think", "sub_agent_answer"))
              ELSE s
        s2 == stop_tools_live(s1)
        result_preview == Truncate(content, PreviewDisplayCap, "...")
    IN SaveContent(ConsolePrint(s2, [kind |-> "sub_agent_complete",
                                     markdown |-> result_preview]),
                   "sub_agent", PyString(content))

handle_sub_agent_thinking(s, content, subagent) ==
    LET s1 == transition_from_content_state(s, "sub_agent_thinking",
                                            "sub_agent_think", "sub_agent_answer")
        s2 == [s1 EXCEPT !.current_state = "sub_agent_thinking",
                         !.thinking_buffer = Append(@, content)]
    IN update_live(s2, ThinkingPanel(subagent \o " Thinking", s2.thinking_buffer))

handle_sub_agent_answer(s, content, subagent) ==
    LET s1 == transition_from_content_state(s, "sub_agent_answer",
                                            "sub_agent_think", "sub_agent_answer")
        s2 == [s1 EXCEPT !.current_state = "sub_agent_answer",
                         !.answer_buffer = Append(@, content)]
    IN update_live(s2, AnswerPanel(subagent \o " Answer", s2.answer_buffer))

handle_sub_agent_tool_call(s, content) ==
    LET s1 == IF s.current_state \notin ToolPhases /\ s.current_live # NoLive
              THEN stop_current_live(
                       save_and_clear_buffers(s, "sub_agent_think", "sub_agent_answer"))
              ELSE s
        s2 == [s1 EXCEPT !.current_state = "sub_agent_tool_call"]
    IN IF ~content.wf
       THEN ConsolePrint(s2, ErrorPanel("Error parsing sub_agent tool call: " \o content.raw))
       ELSE LET tool_data == content.data
                tool_id == DictGet(tool_data, "id", "")
                record == [name |-> DictGet(tool_data, "name", ""),
                           args_str |-> JsonDumps(DictGet(tool_data, "args", <<>>)),
                           status |-> "pending",
                           result |-> PyNone,
                           subagent |-> DictGet(tool_data, "subagent", "SubAgent")]
            IN StoreCall(s2, tool_id, record)

handle_sub_agent_tool_result(s, content) ==
    LET s1 == [s EXCEPT !.current_state = "sub_agent_tool_result"]
    IN IF ~content.wf
       THEN ConsolePrint(s1, ErrorPanel("Error parsing sub_agent tool result: " \o content.raw))
       ELSE LET result_data == content.data
                tool_id == DictGet(result_data, "id", "")
                tool_result == DictGet(result_data, "content", PyString(content.raw))
            IN StoreResult(s1, tool_id, tool_result)

\* faulty variant: the buffers are flushed as well
handle_error_flush(s, content) ==
    ConsolePrint(save_and_clear_buffers(stop_current_live(stop_tools_live(s)),
                                        "think", "answer"),
                 [kind |-> "error_from_stream", text |-> content])

handle_error(s, content) ==
    ConsolePrint(stop_current_live(stop_tools_live(s)),
                 [kind |-> "error_from_stream", text |-> content])

\* faulty variant: a type tag no handler is registered for is handled as an error
handle_response_other(s, response) ==
    IF "none" \in DOMAIN response THEN s
    ELSE LET response_type == DictGet(response, "type", "")
             content == DictGet(response, "content", "")
             subagent == DictGet(response, "subagent", "SubAgent")
         IN CASE response_type = "" -> s
              [] response_type = "model_thinking" -> handle_model_thinking(s, content)
              [] response_type = "model_answer" -> handle_model_answer(s, content)
              [] response_type = "tool_call" -> handle_tool_call(s, content)
              [] response_type = "tool_result" -> handle_tool_result(s, content)
              [] response_type = "sub_agent_start" -> handle_sub_agent_start(s, response)
              [] response_type = "sub_agent_end" -> handle_sub_agent_end(s, content)
              [] response_type = "sub_agent_thinking" ->
                     handle_sub_agent_thinking(s, content, subagent)
              [] response_type = "sub_agent_answer" ->
                     handle_sub_agent_answer(s, content, subagent)
              [] response_type = "sub_agent_tool_call" -> handle_sub_agent_tool_call(s, content)
              [] response_type = "sub_agent_tool_result" ->
                     handle_sub_agent_tool_result(s, content)
              [] response_type = "error" -> handle_error(s, content)
              [] OTHER -> handle_error(s, content)

\* a response is a record; None is the record [none |-> TRUE]
handle_response(s, response) ==
    IF "none" \in DOMAIN response THEN s
    ELSE LET response_type == DictGet(response, "type", "")
             content == DictGet(response, "content", "")
             subagent == DictGet(response, "subagent", "SubAgent")
         IN CASE response_type = "" -> s
              [] response_type = "model_thinking" -> handle_model_thinking(s, content)
              [] response_type = "model_answer" -> handle_model_answer(s, content)
              [] response_type = "tool_call" -> handle_tool_call(s, content)
              [] response_type = "tool_result" -> handle_tool_result(s, content)
              [] response_type = "sub_agent_start" -> handle_sub_agent_start(s, response)
              [] response_type = "sub_agent_end" -> handle_sub_agent_end(s, content)
              [] response_type = "sub_agent_thinking" ->
                     handle_sub_agent_thinking(s, content, subagent)
              [] response_type = "sub_agent_answer" ->
                     handle_sub_agent_answer(s, content, subagent)
              [] response_type = "sub_agent_tool_call" -> handle_sub_agent_tool_call(s, content)
              [] response_type = "sub_agent_tool_result" ->
                     handle_sub_agent_tool_result(s, content)
              [] response_type = "error" -> handle_error(s, content)
              [] OTHER -> s

\* faulty variant: the regions are stopped and nothing is saved
finalize_nosave(s) == stop_current_live(stop_tools_live(s))

\* faulty variant: the tool records are dropped with the regions
finalize_abandon(s) ==
    [save_and_clear_buffers(stop_current_live(stop_tools_live(s)), "think", "answer")
        EXCEPT !.tool_states = <<>>]

\* faulty variant: the content region is left as it is
finalize_leave_content(s) == save_and_clear_buffers(stop_tools_live(s), "think", "answer")

finalize(s) ==
    save_and_clear_buffers(stop_current_live(stop_tools_live(s)), "think", "answer")

\* faulty variant: the buffers are flushed before they are cleared
reset_flush(s) ==
    stop_tools_live(stop_current_live(
        [save_and_clear_buffers(s, "think", "answer")
            EXCEPT !.tool_states = <<>>, !.pending_results = EmptyDict,
                   !.current_state = NoState]))

\* reset() clears the handler's fields; the console and the sink are the
\* collaborators' and keep what they were given
reset(s) ==
    stop_tools_live(stop_current_live(
        [s EXCEPT !.tool_states = <<>>, !.pending_results = EmptyDict,
                  !.thinking_buffer = <<>>, !.answer_buffer = <<>>,
                  !.current_state = NoState]))

\* ------------------------------------------------------------- the stream

\* Text fragments.  Each content event type draws from its own alphabet of
\* one-character fragments, so that a character found in a buffer or in a
\* sink payload tells which event type delivered it; the handlers never
\* inspect the text.
ThinkingFragments == {"a", "b"}
AnswerFragments == {"c", "d"}
SubThinkingFragments == {"p", "q"}
SubAnswerFragments == {"r", "s"}

ToolIds == {"t1", "t2"}
ToolResults == {PyString("ok"), PyInt(42)}

\* JSON text of a tool call / tool result event, and text json.loads rejects
CallText(data) == [raw |-> "{call " \o data.id \o "}", wf |-> TRUE, data |-> data]
ResultText(data) == [raw |-> "{result " \o data.id \o "}", wf |-> TRUE, data |-> data]
Malformed == [raw |-> "{oops", wf |-> FALSE]

ToolCallTexts ==
    {CallText([id |-> k, name |-> "ls", args |-> << <<"path", "/tmp">> >>]) : k \in ToolIds}
SubToolCallTexts ==
    {CallText([id |-> k, name |-> "grep", args |-> <<>>, subagent |-> "coder"]) : k \in ToolIds}
ToolResultTexts == {ResultText([id |-> k, content |-> r]) : k \in ToolIds, r \in ToolResults}

\* the text ch repeated n times
RECURSIVE Repeat(_, _)
Repeat(ch, n) ==
    IF n = 0 THEN ""
    ELSE IF n % 2 = 0 THEN LET half == Repeat(ch, n \div 2) IN half \o half
    ELSE ch \o Repeat(ch, n - 1)

\* final outputs of a sub-agent: a short one, one as long as the preview cap
\* and one a character longer
SubAgentEndContents ==
    {"fixed", Repeat("x", PreviewDisplayCap), Repeat("y", PreviewDisplayCap + 1)}

IgnoredResponses ==
    {[none |-> TRUE], [content |-> "x"], [type |-> "", content |-> "x"],
     [type |-> "model_usage", content |-> "x"]}

\* ---------------------------------------------------------------- actions

\* the handler of a turn just constructed (main.py line 226), about to be fed
\* the stream of the message submitted
Init ==
    /\ tool_states = Fresh.tool_states
    /\ pending_results = Fresh.pending_results
    /\ thinking_buffer = Fresh.thinking_buffer
    /\ answer_buffer = Fresh.answer_buffer
    /\ current_state = Fresh.current_state
    /\ current_live = Fresh.current_live
    /\ tools_live = Fresh.tools_live
    /\ console = Fresh.console
    /\ sink = Fresh.sink
    /\ completed = Fresh.completed
    /\ received = <<>>
    /\ seen = EmptyDict
    /\ last = [call |-> "__init__"]
    /\ steps = 0
    /\ pc = "streaming"
    /\ turns = 1
    /\ submitted = << "hello" >>
    /\ arrived_at = <<>>
    /\ saved_at = <<>>

ContentTypes == {"model_thinking", "model_answer", "sub_agent_thinking", "sub_agent_answer"}

CallTypes == {"tool_call", "sub_agent_tool_call"}
ResultTypes == {"tool_result", "sub_agent_tool_result"}

\* op is a tool event whose content json.loads accepts
WellFormedTool(op) ==
    /\ DictGet(op, "type", "") \in CallTypes \cup ResultTypes
    /\ op.content.wf

EventId(op) == DictGet(op.content.data, "id", "")

SeenOf(sn, k) == DictGet(sn, k, [calls |-> 0, results |-> <<>>])

Observe(sn, op) ==
    IF ~WellFormedTool(op) THEN sn
    ELSE LET k == EventId(op)
             old == SeenOf(sn, k)
         IN IF op.type \in CallTypes
            THEN DictSet(sn, k, [old EXCEPT !.calls = @ + 1])
            ELSE DictSet(sn, k, [old EXCEPT !.results =
                     Append(@, DictGet(op.content.data, "content", PyString(op.content.raw)))])

\* the handler main() holds becomes s
HandlerBecomes(s) ==
    /\ tool_states' = s.tool_states
    /\ pending_results' = s.pending_results
    /\ thinking_buffer' = s.thinking_buffer
    /\ answer_buffer' = s.answer_buffer
    /\ current_state' = s.current_state
    /\ current_live' = s.current_live
    /\ tools_live' = s.tools_live
    /\ console' = s.console
    /\ sink' = s.sink
    /\ completed' = s.completed

\* the handler becomes s by the operation op, within the stream loop of one turn
Becomes(s, op) ==
    /\ HandlerBecomes(s)
    /\ received' = IF DictGet(op, "type", "") \in ContentTypes
                   THEN Append(received, op) ELSE received
    /\ seen' = Observe(seen, op)
    /\ last' = op
    /\ steps' = steps + 1
    /\ UNCHANGED <<pc, turns, submitted>>

\* the stream yields response and the loop passes it to handle_response
Deliver(response) ==
    /\ Becomes(handle_response(Self, response), response)
    /\ UNCHANGED <<arrived_at, saved_at>>

\* The steps of the stream: one per event type, for every content the type
\* can carry here.

DeliverModelThinking ==
    \E c \in ThinkingFragments : Deliver([type |-> "model_thinking", content |-> c])

DeliverModelAnswer ==
    \E c \in AnswerFragments : Deliver([type |-> "model_answer", content |-> c])

DeliverToolCall(texts) ==
    \E c \in texts : Deliver([type |-> "tool_call", content |-> c])

DeliverToolResult(texts) ==
    \E c \in texts : Deliver([type |-> "tool_result", content |-> c])

DeliverSubAgentStart ==
    Deliver([type |-> "sub_agent_start", subagent |-> "coder", task |-> "fix the bug"])

DeliverSubAgentEnd(contents) ==
    \E c \in contents : Deliver([type |-> "sub_agent_end", content |-> c])

DeliverSubAgentThinking ==
    \E c \in SubThinkingFragments :
        Deliver([type |-> "sub_agent_thinking", content |-> c, subagent |-> "coder"])

DeliverSubAgentAnswer ==
    \E c \in SubAnswerFragments :
        Deliver([type |-> "sub_agent_answer", content |-> c, subagent |-> "coder"])

DeliverSubAgentToolCall(texts) ==
    \E c \in texts : Deliver([type |-> "sub_agent_tool_call", content |-> c])

DeliverSubAgentToolResult(texts) ==
    \E c \in texts : Deliver([type |-> "sub_agent_tool_result", content |-> c])

DeliverError ==
    Deliver([type |-> "error", content |-> "boom"])

CallFinalize ==
    /\ Becomes(finalize(Self), [call |-> "finalize"])
    /\ UNCHANGED <<arrived_at, saved_at>>

CallReset ==
    /\ Becomes(reset(Self), [call |-> "reset"])
    /\ UNCHANGED <<arrived_at, saved_at>>

\* ---- Spec: one handler from construction on, as main.py uses it (never
\* reset), fed any event

ModelThinking == steps < MaxEvents /\ DeliverModelThinking
ModelAnswer == steps < MaxEvents /\ DeliverModelAnswer
ToolCall == steps < MaxEvents /\ DeliverToolCall(ToolCallTexts \cup {Malformed})
ToolResult == steps < MaxEvents /\ DeliverToolResult(ToolResultTexts \cup {Malformed})
SubAgentStart == steps < MaxEvents /\ DeliverSubAgentStart
SubAgentEnd == steps < MaxEvents /\ DeliverSubAgentEnd(SubAgentEndContents)
SubAgentThinking == steps < MaxEvents /\ DeliverSubAgentThinking
SubAgentAnswer == steps < MaxEvents /\ DeliverSubAgentAnswer
SubAgentToolCall ==
    steps < MaxEvents /\ DeliverSubAgentToolCall(SubToolCallTexts \cup {Malformed})
SubAgentToolResult ==
    steps < MaxEvents /\ DeliverSubAgentToolResult(ToolResultTexts \cup {Malformed})
Error == steps < MaxEvents /\ DeliverError
Ignored == steps < MaxEvents /\ \E response \in IgnoredResponses : Deliver(response)
Finalize == steps < MaxEvents /\ CallFinalize

Next ==
    \/ ModelThinking
    \/ ModelAnswer
    \/ ToolCall
    \/ ToolResult
    \/ SubAgentStart
    \/ SubAgentEnd
    \/ SubAgentThinking
    \/ SubAgentAnswer
    \/ SubAgentToolCall
    \/ SubAgentToolResult
    \/ Error
    \/ Ignored
    \/ Finalize

Spec == Init /\ [][Next]_vars

\* ---- SpecTools: the same handler fed well-formed tool events only, for
\* longer

ToolsCall == steps < MaxToolEvents /\ DeliverToolCall(ToolCallTexts)
ToolsResult == steps < MaxToolEvents /\ DeliverToolResult(ToolResultTexts)
ToolsSubAgentCall == steps < MaxToolEvents /\ DeliverSubAgentToolCall(SubToolCallTexts)
ToolsSubAgentResult == steps < MaxToolEvents /\ DeliverSubAgentToolResult(ToolResultTexts)

NextTools ==
    \/ ToolsCall
    \/ ToolsResult
    \/ ToolsSubAgentCall
    \/ ToolsSubAgentResult

SpecTools == Init /\ [][NextTools]_vars

\* ---- SpecText: the same handler fed text events and the events that end a
\* content phase (one tool id, one result), for longer

OneCallText == {CallText([id |-> "t1", name |-> "ls", args |-> <<>>])}
OneResultText == {ResultText([id |-> "t1", content |-> PyString("ok")])}

TextModelThinking == steps < MaxTextEvents /\ DeliverModelThinking
TextModelAnswer == steps < MaxTextEvents /\ DeliverModelAnswer
TextSubAgentThinking == steps < MaxTextEvents /\ DeliverSubAgentThinking
TextSubAgentAnswer == steps < MaxTextEvents /\ DeliverSubAgentAnswer
TextToolCall == steps < MaxTextEvents /\ DeliverToolCall(OneCallText)
TextToolResult == steps < MaxTextEvents /\ DeliverToolResult(OneResultText)
TextSubAgentToolCall == steps < MaxTextEvents /\ DeliverSubAgentToolCall(OneCallText)
TextSubAgentStart == steps < MaxTextEvents /\ DeliverSubAgentStart
TextSubAgentEnd == steps < MaxTextEvents /\ DeliverSubAgentEnd({"fixed"})
TextError == steps < MaxTextEvents /\ DeliverError
TextFinalize == steps < MaxTextEvents /\ CallFinalize

NextText ==
    \/ TextModelThinking
    \/ TextModelAnswer
    \/ TextSubAgentThinking
    \/ TextSubAgentAnswer
    \/ TextToolCall
    \/ TextToolResult
    \/ TextSubAgentToolCall
    \/ TextSubAgentStart
    \/ TextSubAgentEnd
    \/ TextError
    \/ TextFinalize

SpecText == Init /\ [][NextText]_vars

\* ---- SpecThinkAnswer: a fresh handler fed ModelThinking events and then
\* ModelAnswer events

OnlyThinkingSoFar == \A i \in 1..Len(received) : received[i].type = "model_thinking"

ThinkAnswerThinking ==
    /\ steps < MaxThinkAnswerEvents
    /\ OnlyThinkingSoFar
    /\ DeliverModelThinking

ThinkAnswerAnswer ==
    /\ steps < MaxThinkAnswerEvents
    /\ received # <<>>
    /\ DeliverModelAnswer

NextThinkAnswer ==
    \/ ThinkAnswerThinking
    \/ ThinkAnswerAnswer

SpecThinkAnswer == Init /\ [][NextThinkAnswer]_vars

\* ---- SpecMixed: the same handler fed model text, well-formed tool events
\* of two ids and error events, for longer than Spec

MixedModelThinking == steps < MaxMixedEvents /\ DeliverModelThinking
MixedModelAnswer == steps < MaxMixedEvents /\ DeliverModelAnswer
MixedToolCall == steps < MaxMixedEvents /\ DeliverToolCall(ToolCallTexts)
MixedToolResult == steps < MaxMixedEvents /\ DeliverToolResult(ToolResultTexts)
MixedSubAgentToolCall ==
    steps < MaxMixedEvents /\ DeliverSubAgentToolCall(SubToolCallTexts)
MixedSubAgentToolResult ==
    steps < MaxMixedEvents /\ DeliverSubAgentToolResult(ToolResultTexts)
MixedError == steps < MaxMixedEvents /\ DeliverError

NextMixed ==
    \/ MixedModelThinking
    \/ MixedModelAnswer
    \/ MixedToolCall
    \/ MixedToolResult
    \/ MixedSubAgentToolCall
    \/ MixedSubAgentToolResult
    \/ MixedError

SpecMixed == Init /\ [][NextMixed]_vars

\* ---- SpecResults: a fresh handler fed the call and the results of one id,
\* with result texts around the display cap: a short one, one a character
\* shorter than the cap, one as long as the cap and one a character longer

ResultsCall == steps < MaxResultEvents /\ DeliverToolCall(OneCallText)
ResultsResult ==
    /\ steps < MaxResultEvents
    /\ DeliverToolResult({ResultText([id |-> "t1", content |-> PyString(r)]) :
                             r \in {"ok", Repeat("w", ResultDisplayCap - 1),
                                    Repeat("y", ResultDisplayCap),
                                    Repeat("z", ResultDisplayCap + 1)}})

NextResults ==
    \/ ResultsCall
    \/ ResultsResult

SpecResults == Init /\ [][NextResults]_vars

\* ---- SpecReset: a handler that is used on after reset(), as a caller
\* keeping one handler for several turns would; fed text and tool events of
\* one id

ResetModelThinking == steps < MaxResetEvents /\ DeliverModelThinking
ResetToolCall == steps < MaxResetEvents /\ DeliverToolCall(OneCallText)
ResetToolResult == steps < MaxResetEvents /\ DeliverToolResult(OneResultText)
ResetSubAgentStart == steps < MaxResetEvents /\ DeliverSubAgentStart
ResetSubAgentEnd == steps < MaxResetEvents /\ DeliverSubAgentEnd({"fixed"})
ResetError == steps < MaxResetEvents /\ DeliverError
ResetFinalize == steps < MaxResetEvents /\ CallFinalize
Reset == steps < MaxResetEvents /\ CallReset

NextReset ==
    \/ ResetModelThinking
    \/ ResetToolCall
    \/ ResetToolResult
    \/ ResetSubAgentStart
    \/ ResetSubAgentEnd
    \/ ResetError
    \/ ResetFinalize
    \/ Reset

SpecReset == Init /\ [][NextReset]_vars

\* ---- SpecEmpty: a fresh handler fed content events whose content is a
\* character, the empty string, or absent

EmptyContents(type, fragment) ==
    {[type |-> type, content |-> fragment], [type |-> type, content |-> ""], [type |-> type]}

EmptyModelThinking ==
    /\ steps < MaxEmptyEvents
    /\ \E response \in EmptyContents("model_thinking", "a") : Deliver(response)
EmptyModelAnswer ==
    /\ steps < MaxEmptyEvents
    /\ \E response \in EmptyContents("model_answer", "c") : Deliver(response)
EmptyFinalize == steps < MaxEmptyEvents /\ CallFinalize

NextEmpty ==
    \/ EmptyModelThinking
    \/ EmptyModelAnswer
    \/ EmptyFinalize

SpecEmpty == Init /\ [][NextEmpty]_vars

\* ---- SpecOrder: a fresh handler fed model text, the tool events of one id
\* and error, and finalized; each text event and each sink call is stamped
\* with the number of the step it belongs to

\* the handler becomes s by the operation op, which is step number steps + 1
BecomesStamped(s, op) ==
    /\ Becomes(s, op)
    /\ arrived_at' = IF DictGet(op, "type", "") \in ContentTypes
                     THEN Append(arrived_at, steps + 1) ELSE arrived_at
    /\ saved_at' = saved_at \o [i \in 1..(Len(s.sink) - Len(sink)) |-> steps + 1]

OrderModelThinking ==
    /\ steps < MaxOrderEvents
    /\ \E c \in ThinkingFragments : 
       LET response == [type |-> "model_thinking", content |-> c]
       IN BecomesStamped(handle_response(Self, response), response)
OrderModelAnswer ==
    /\ steps < MaxOrderEvents
    /\ \E c \in AnswerFragments : 
       LET response == [type |-> "model_answer", content |-> c]
       IN BecomesStamped(handle_response(Self, response), response)
OrderToolCall ==
    /\ steps < MaxOrderEvents
    /\ \E c \in OneCallText : 
       LET response == [type |-> "tool_call", content |-> c]
       IN BecomesStamped(handle_response(Self, response), response)
OrderToolResult ==
    /\ steps < MaxOrderEvents
    /\ \E c \in OneResultText : 
       LET response == [type |-> "tool_result", content |-> c]
       IN BecomesStamped(handle_response(Self, response), response)
OrderError ==
    /\ steps < MaxOrderEvents
    /\ LET response == [type |-> "error", content |-> "boom"]
       IN BecomesStamped(handle_response(Self, response), response)
OrderFinalize ==
    steps < MaxOrderEvents /\ BecomesStamped(finalize(Self), [call |-> "finalize"])

NextOrder ==
    \/ OrderModelThinking
    \/ OrderModelAnswer
    \/ OrderToolCall
    \/ OrderToolResult
    \/ OrderError
    \/ OrderFinalize

SpecOrder == Init /\ [][NextOrder]_vars

\* ---- SpecMain: the loop of main(), from its first prompt on.  A step runs
\* from one point where the loop waits (for an input line, for the next
\* response of the stream, for the answer to the exit confirmation) to the
\* next; what is waited for either arrives or raises KeyboardInterrupt,
\* EOFError or another Exception.

\* str.strip() of spaces and str.lower() of the letters of the answers below
RECURSIVE Strip(_)
Strip(text) ==
    IF text = "" THEN ""
    ELSE IF SubSeq(text, 1, 1) = " " THEN Strip(SubSeq(text, 2, Len(text)))
    ELSE IF SubSeq(text, Len(text), Len(text)) = " "
    THEN Strip(SubSeq(text, 1, Len(text) - 1))
    ELSE text

RECURSIVE Lower(_)
Lower(text) ==
    LET ch == SubSeq(text, 1, 1)
        lower == CASE ch = "Y" -> "y"
                   [] ch = "E" -> "e"
                   [] ch = "S" -> "s"
                   [] ch = "N" -> "n"
                   [] OTHER -> ch
    IN IF text = "" THEN "" ELSE lower \o Lower(SubSeq(text, 2, Len(text)))

\* what the user answers to "Do you want to exit? (y/n)"
ConfirmAnswers == {"y", " Yes ", "n", "", "yes!"}

\* the values of CommandType main() distinguishes, and the results of
\* parse_command: cmd_type, success and passthrough_msg
Commands ==
    [cmd_type : {"EXIT", "EMPTY", "SHELL", "VECTOR", "PROMPT_LIST", "PROMPT",
                 "VECTOR_RAG", "PASSTHROUGH"},
     success : BOOLEAN,
     passthrough_msg : {"", "hello"}]

\* console.print(...) of main(), logged by what is printed
MainPrint(s, kinds) ==
    [s EXCEPT !.console =
        @ \o [i \in 1..Len(kinds) |-> [op |-> "print", panel |-> [kind |-> kinds[i]]]]]

\* faulty variant: an empty message goes to the agent too
ToAgent_always(query_msg, prints) ==
    [then |-> "stream", query_msg |-> query_msg, prints |-> prints \o << "blank" >>]

\* lines 219-223: the message goes to the agent unless it is empty
ToAgent(query_msg, prints) ==
    IF query_msg = ""
    THEN [then |-> "continue", query_msg |-> query_msg, prints |-> prints]
    ELSE [then |-> "stream", query_msg |-> query_msg, prints |-> prints \o << "blank" >>]

\* lines 141-223: what the loop does with the result of parse_command: break,
\* continue, or go on to the agent stream with query_msg; and what it prints
DispatchCommand(cmd_result) ==
    CASE cmd_result.cmd_type = "EXIT" ->
             [then |-> "break", query_msg |-> "", prints |-> << "title" >>]
      [] cmd_result.cmd_type = "EMPTY" ->
             [then |-> "continue", query_msg |-> "", prints |-> <<>>]
      [] cmd_result.cmd_type \in {"SHELL", "VECTOR", "PROMPT_LIST"} ->
             [then |-> "continue", query_msg |-> "", prints |-> << "blank", "output" >>]
      [] cmd_result.cmd_type = "PROMPT" ->
             IF ~cmd_result.success
             THEN [then |-> "continue", query_msg |-> "", prints |-> << "blank", "output" >>]
             ELSE ToAgent(cmd_result.passthrough_msg, << "output" >>)
      [] cmd_result.cmd_type = "VECTOR_RAG" ->
             IF ~cmd_result.success
             THEN [then |-> "continue", query_msg |-> "", prints |-> << "blank", "output" >>]
             ELSE ToAgent(cmd_result.passthrough_msg, << "blank", "output" >>)
      [] cmd_result.cmd_type = "PASSTHROUGH" ->
             ToAgent(cmd_result.passthrough_msg, <<>>)

\* faulty variant: the handler of the turn before is used again
StreamHandlerNew_reuse(s) == s

\* line 226: StreamHandler(console, args.output, save_content), a new handler
\* writing to the same console and the same sink
StreamHandlerNew(s) == [Fresh EXCEPT !.console = s.console, !.sink = s.sink]

\* the responses the stream yields in SpecMain: text, and a tool call and a
\* tool result of one id
MainTextResponses == {[type |-> "model_thinking", content |-> "a"]}
MainToolResponses ==
    {[type |-> "tool_call", content |-> c] : c \in OneCallText}
    \cup {[type |-> "tool_result", content |-> c] : c \in OneResultText}

\* a step of the loop that leaves the handler s and goes on at next_pc
MainBecomes(s, op, next_pc) ==
    /\ HandlerBecomes(s)
    /\ received' = IF DictGet(op, "type", "") \in ContentTypes
                   THEN Append(received, op) ELSE received
    /\ last' = op
    /\ steps' = steps + 1
    /\ pc' = next_pc
    /\ UNCHANGED <<arrived_at, saved_at>>

InitMain ==
    /\ tool_states = Fresh.tool_states
    /\ pending_results = Fresh.pending_results
    /\ thinking_buffer = Fresh.thinking_buffer
    /\ answer_buffer = Fresh.answer_buffer
    /\ current_state = Fresh.current_state
    /\ current_live = Fresh.current_live
    /\ tools_live = Fresh.tools_live
    /\ console = Fresh.console
    /\ sink = Fresh.sink
    /\ completed = Fresh.completed
    /\ received = <<>>
    /\ seen = EmptyDict
    /\ last = [call |-> "main"]
    /\ steps = 0
    /\ pc = "prompt"
    /\ turns = 0
    /\ submitted = <<>>
    /\ arrived_at = <<>>
    /\ saved_at = <<>>

\* lines 136-144: a line is read and parsed as EXIT
MainExit ==
    /\ pc = "prompt" /\ steps < MaxMainSteps
    /\ \E cmd_result \in Commands :
          LET todo == DispatchCommand(cmd_result)
          IN /\ todo.then = "break"
             /\ MainBecomes(MainPrint(Self, todo.prints),
                            [call |-> "line", cmd_result |-> cmd_result], "done")
             /\ UNCHANGED <<seen, turns, submitted>>

\* lines 136-221: a line is read, parsed and dealt with without the agent
MainNoAgent ==
    /\ pc = "prompt" /\ steps < MaxMainSteps
    /\ \E cmd_result \in Commands :
          LET todo == DispatchCommand(cmd_result)
          IN /\ todo.then = "continue"
             /\ MainBecomes(MainPrint(Self, todo.prints),
                            [call |-> "line", cmd_result |-> cmd_result], "prompt")
             /\ UNCHANGED <<seen, turns, submitted>>

\* lines 136-235: a line is read and parsed, a handler is constructed and the
\* message is submitted to ChatStream
MainSubmit ==
    /\ pc = "prompt" /\ steps < MaxMainSteps /\ turns < MaxTurns
    /\ \E cmd_result \in Commands :
          LET todo == DispatchCommand(cmd_result)
          IN /\ todo.then = "stream"
             /\ MainBecomes(StreamHandlerNew(MainPrint(Self, todo.prints)),
                            [call |-> "line", cmd_result |-> cmd_result], "streaming")
             /\ seen' = EmptyDict
             /\ turns' = turns + 1
             /\ submitted' = Append(submitted, todo.query_msg)

\* lines 229-236: the stream yields response
MainDeliver(response) ==
    /\ MainBecomes(handle_response(Self, response), response, "streaming")
    /\ seen' = Observe(seen, response)
    /\ UNCHANGED <<turns, submitted>>

MainEvent ==
    /\ pc = "streaming" /\ steps < MaxMainSteps
    /\ \/ \E response \in MainTextResponses : MainDeliver(response)
       \/ \E response \in MainToolResponses : MainDeliver(response)

\* lines 229-239: the stream is exhausted
MainStreamEnd ==
    /\ pc = "streaming" /\ steps < MaxMainSteps
    /\ MainBecomes(finalize(Self), [call |-> "finalize"], "prompt")
    /\ UNCHANGED <<seen, turns, submitted>>

\* faulty variant: the interrupt is reported without finalize()
CatchInterrupt_nofinalize ==
    /\ MainBecomes(MainPrint(Self, << "interrupted" >>),
                   [call |-> "KeyboardInterrupt", at |-> pc], "confirm")
    /\ UNCHANGED <<seen, turns, submitted>>

\* lines 241-245: KeyboardInterrupt caught in the loop body; stream_handler is
\* in locals() once a handler was constructed
CatchInterrupt ==
    /\ MainBecomes(MainPrint(IF turns > 0 THEN finalize(Self) ELSE Self,
                             << "interrupted" >>),
                   [call |-> "KeyboardInterrupt", at |-> pc], "confirm")
    /\ UNCHANGED <<seen, turns, submitted>>

\* . . . raised while the stream is processed
MainInterruptStreaming == pc = "streaming" /\ steps < MaxMainSteps /\ CatchInterrupt

\* . . . raised by shell.prompt_async() at line 136
MainInterruptIdle == pc = "prompt" /\ steps < MaxMainSteps /\ CatchInterrupt

\* lines 248-254: the exit confirmation is answered
MainConfirm ==
    /\ pc = "confirm" /\ steps < MaxMainSteps
    /\ \E confirm \in ConfirmAnswers :
          /\ IF Lower(Strip(confirm)) \in {"y", "yes"}
             THEN MainBecomes(MainPrint(Self, << "goodbye" >>),
                              [call |-> "confirm", confirm |-> confirm], "done")
             ELSE MainBecomes(Self, [call |-> "confirm", confirm |-> confirm], "prompt")
          /\ UNCHANGED <<seen, turns, submitted>>

\* lines 255-258: KeyboardInterrupt or EOFError at the exit confirmation
MainConfirmAbort ==
    /\ pc = "confirm" /\ steps < MaxMainSteps
    /\ \E raised \in {"KeyboardInterrupt", "EOFError"} :
          MainBecomes(MainPrint(Self, << "goodbye" >>),
                      [call |-> raised, at |-> pc], "done")
    /\ UNCHANGED <<seen, turns, submitted>>

\* lines 276-285: another exception at the exit confirmation leaves the loop
\* and is reported as fatal
MainConfirmError ==
    /\ pc = "confirm" /\ steps < MaxMainSteps
    /\ MainBecomes(MainPrint(Self, << "fatal", "traceback" >>),
                   [call |-> "Exception", at |-> pc], "done")
    /\ UNCHANGED <<seen, turns, submitted>>

\* lines 259-262: EOFError raised in the loop body
MainEndOfInput ==
    /\ pc \in {"prompt", "streaming"} /\ steps < MaxMainSteps
    /\ MainBecomes(MainPrint(Self, << "goodbye" >>), [call |-> "EOFError", at |-> pc], "done")
    /\ UNCHANGED <<seen, turns, submitted>>

\* lines 263-272: another exception raised in the loop body, by the prompt or
\* the parser, or by the stream in place of a response
MainError ==
    /\ pc \in {"prompt", "streaming"} /\ steps < MaxMainSteps
    /\ MainBecomes(MainPrint(Self, << "error", "traceback" >>),
                   [call |-> "Exception", at |-> pc], "prompt")
    /\ UNCHANGED <<seen, turns, submitted>>

NextMain ==
    \/ MainExit
    \/ MainNoAgent
    \/ MainSubmit
    \/ MainEvent
    \/ MainStreamEnd
    \/ MainInterruptStreaming
    \/ MainInterruptIdle
    \/ MainConfirm
    \/ MainConfirmAbort
    \/ MainConfirmError
    \/ MainEndOfInput
    \/ MainError

SpecMain == InitMain /\ [][NextMain]_vars

\* ------------------------------------------------------------ observations

\* the entries of log after the first n
Since(log, n) == SubSeq(log, n + 1, Len(log))

IsCompletePanel(e) == e.op = "print" /\ e.panel.kind = "tool_complete"
IsToolSave(e) == e.category = "tool_call"

\* the completion panels printed and the tool_call sink calls made between
\* the handler states before and after
PanelsBetween(before, after) ==
    SelectSeq(Since(after.console, Len(before.console)), IsCompletePanel)
ToolSavesBetween(before, after) ==
    SelectSeq(Since(after.sink, Len(before.sink)), IsToolSave)

Count(seq, x) == Cardinality({i \in 1..Len(seq) : seq[i] = x})

IsComplete(d, k) == OdHas(d, k) /\ OdGet(d, k).status = "complete"
IsPending(d, k) == OdHas(d, k) /\ OdGet(d, k).status = "pending"

\* ------------------------------------------------------------------ claims

\* what a call/result pair for id k leaves behind, started in state s: the
\* record of k, and the completion panels and tool_call sink calls made
PairOutcome(s, after, k) ==
    [record |-> IF OdHas(after.tool_states, k) THEN OdGet(after.tool_states, k) ELSE PyNone,
     panels |-> PanelsBetween(s, after),
     saves |-> ToolSavesBetween(s, after)]

\* the record, the one panel and the one sink call the claim expects
C1_Expected(out, call, result) ==
    /\ out.record.name = DictGet(call.data, "name", "")
    /\ out.record.args_str = JsonDumps(DictGet(call.data, "args", <<>>))
    /\ out.record.status = "complete"
    /\ out.record.result = PyString(PyStr(result.data.content))
    /\ Len(out.panels) = 1
    /\ out.panels[1].panel.result = PyStr(result.data.content)
    /\ out.panels[1].panel.args = out.record.args_str
    /\ out.saves = << [category |-> "tool_call",
                       payload |-> [t |-> "dict", name |-> out.record.name,
                                    args_str |-> out.record.args_str]] >>

C1_Holds(s, call_type, result_type, call, result) ==
    LET k == call.data.id
        c == [type |-> call_type, content |-> call]
        r == [type |-> result_type, content |-> result]
        call_first == PairOutcome(s, handle_response(handle_response(s, c), r), k)
        result_first == PairOutcome(s, handle_response(handle_response(s, r), c), k)
    IN /\ call_first = result_first
       /\ C1_Expected(call_first, call, result)

\* C1: from a state where id k is in neither the tool map nor the pending-result
\* cache, the call and the result of k processed in either order leave the same
\* record (name, arguments text, complete, result) and emit the same completion
\* panel and the same tool_call sink call; for the top-level pair of events and
\* for the sub-agent pair.
C1_OrderIndependence ==
    \A result \in ToolResultTexts :
        LET k == result.data.id
        IN (~OdHas(tool_states, k) /\ k \notin DOMAIN pending_results) =>
              /\ \A call \in ToolCallTexts :
                    call.data.id = k =>
                        C1_Holds(Self, "tool_call", "tool_result", call, result)
              /\ \A call \in SubToolCallTexts :
                    call.data.id = k =>
                        C1_Holds(Self, "sub_agent_tool_call", "sub_agent_tool_result",
                                 call, result)

\* a result arrived first and its call has just been completed from the cache,
\* while the other id is still unknown to the handler
C1_Witness ==
    /\ WellFormedTool(last) /\ last.type \in CallTypes
    /\ IsComplete(tool_states, EventId(last))
    /\ Count(completed, EventId(last)) = 1
    /\ \E k \in ToolIds : ~OdHas(tool_states, k) /\ k \notin DOMAIN pending_results

AllCorrelated == \A k \in DOMAIN seen : seen[k].calls = 1 /\ Len(seen[k].results) = 1

\* C2: when every id the stream has mentioned got exactly one well-formed call
\* and one well-formed result, in any interleaving, every such id has a complete
\* record carrying its own result, the pending-result cache is empty and one
\* tool_call sink call was made per id.
C2_AllCorrelated ==
    AllCorrelated =>
        /\ \A k \in DOMAIN seen :
              /\ IsComplete(tool_states, k)
              /\ OdGet(tool_states, k).result = PyString(PyStr(seen[k].results[1]))
              /\ Count(completed, k) = 1
        /\ DOMAIN pending_results = {}
        /\ Len(SelectSeq(sink, IsToolSave)) = Cardinality(DOMAIN seen)

\* two ids, each with its call and its result, one of them result first
C2_Witness ==
    /\ AllCorrelated
    /\ DOMAIN seen = ToolIds
    /\ completed = <<"t2", "t1">>
    /\ last.type \in CallTypes

IsCallStep(op) == WellFormedTool(op) /\ op.type \in CallTypes

\* C3: after a well-formed call event for id k, k is not in the pending-result
\* cache, and if it was there before the event the record of k is complete with
\* the cached payload as its result.
C3_CallConsumesCache ==
    [][ IsCallStep(last') =>
          LET k == EventId(last')
          IN /\ k \notin DOMAIN pending_results'
             /\ k \in DOMAIN pending_results =>
                    /\ IsComplete(tool_states', k)
                    /\ OdGet(tool_states', k).result = PyString(PyStr(pending_results[k]))
      ]_vars

\* a call has just found its result in the cache, another result is still cached
C3_Witness ==
    /\ IsCallStep(last)
    /\ IsComplete(tool_states, EventId(last))
    /\ seen[EventId(last)].calls = 1
    /\ DOMAIN pending_results # {}

\* a complete record stays complete, with the same result, over one step
StaysComplete(k) ==
    IsComplete(tool_states, k) =>
        /\ IsComplete(tool_states', k)
        /\ OdGet(tool_states', k).result = OdGet(tool_states, k).result

\* C4: within one turn a record's status changes only from pending to complete:
\* once the record of id k is complete it never becomes pending again and its
\* result text never changes, whatever event arrives.
C4_CompleteIsFinal == [][\A k \in ToolIds : StaysComplete(k)]_vars

\* C5: within one turn, for every id k the completion panel is printed at most
\* once and the tool_call sink call is made at most once.
C5_CompletedOnce ==
    /\ \A k \in ToolIds : Count(completed, k) <= 1
    /\ Len(SelectSeq(console, IsCompletePanel)) <= Cardinality(ToolIds)
    /\ Len(SelectSeq(sink, IsToolSave)) <= Cardinality(ToolIds)

ThinkingTypes == {"model_thinking", "sub_agent_thinking"}
AnswerTypes == {"model_answer", "sub_agent_answer"}
ThinkCategories == {"think", "sub_agent_think"}
AnswerCategories == {"answer", "sub_agent_answer"}

\* the payloads saved under the categories cats, concatenated in call order
RECURSIVE SavedText(_, _)
SavedText(calls, cats) ==
    IF calls = <<>> THEN ""
    ELSE (IF Head(calls).category \in cats THEN Head(calls).payload.s ELSE "")
         \o SavedText(Tail(calls), cats)

\* the content of the events of the types given, concatenated in arrival order
RECURSIVE ReceivedText(_, _)
ReceivedText(events, types) ==
    IF events = <<>> THEN ""
    ELSE (IF Head(events).type \in types THEN Head(events).content ELSE "")
         \o ReceivedText(Tail(events), types)

Finalized == DictGet(last, "call", "") = "finalize"

\* C6: after finalize() the payloads saved under think and sub_agent_think,
\* in call order, are the content of all ModelThinking and SubAgentThinking
\* events in arrival order, and likewise for answer and sub_agent_answer: no
\* fragment is lost, duplicated or moved.
C6_NothingLost ==
    Finalized =>
        /\ SavedText(sink, ThinkCategories) = ReceivedText(received, ThinkingTypes)
        /\ SavedText(sink, AnswerCategories) = ReceivedText(received, AnswerTypes)
        /\ thinking_buffer = <<>>
        /\ answer_buffer = <<>>

\* finalize() has flushed the rest of a stream that had thinking and answer
\* text from the model and from a sub-agent
C6_Witness ==
    /\ Finalized
    /\ Len(sink) >= 2
    /\ \E i, j \in 1..Len(received) :
          /\ received[i].type = "sub_agent_thinking"
          /\ received[j].type = "model_answer"
    /\ sink[Len(sink)].category = "answer"

Chars(text) == {SubSeq(text, i, i) : i \in 1..Len(text)}

\* the fragments the event type that belongs to a category delivers
AlphabetOf(category) ==
    CASE category = "think" -> ThinkingFragments
      [] category = "answer" -> AnswerFragments
      [] category = "sub_agent_think" -> SubThinkingFragments
      [] category = "sub_agent_answer" -> SubAnswerFragments

\* C7: text of ModelThinking events is only ever saved under think, of
\* ModelAnswer under answer, of SubAgentThinking under sub_agent_think and of
\* SubAgentAnswer under sub_agent_answer, whichever event triggers the flush.
C7_CategoryByOrigin ==
    \A i \in 1..Len(sink) :
        sink[i].category \in ThinkCategories \cup AnswerCategories =>
            Chars(sink[i].payload.s) \subseteq AlphabetOf(sink[i].category)

IsPrefix(a, b) == Len(a) <= Len(b) /\ SubSeq(b, 1, Len(a)) = a

\* this step leaves the content phase it was in and the text of that phase,
\* buffer before and buffer_after after the step, is handled as C8 says
LeftPhaseFlushed(buffer, buffer_after) ==
    buffer # <<>> =>
        /\ \E i \in (Len(sink) + 1)..Len(sink') : sink'[i].payload = PyString(Join(buffer))
        /\ ~IsPrefix(buffer, buffer_after)
        /\ current_live # NoLive =>
               \E i \in (Len(console) + 1)..Len(console') :
                   console'[i] = [op |-> "live_stop", region |-> "content"]

\* C8: when an event changes the phase from a content phase to a different
\* phase, right after it the text accumulated in the phase left is in the sink
\* and in no buffer, and the content region that showed it is torn down.
C8_LeavingFlushes ==
    [][ (current_state \in ContentTypes /\ current_state' # current_state) =>
            IF current_state \in ThinkingTypes
            THEN LeftPhaseFlushed(thinking_buffer, thinking_buffer')
            ELSE LeftPhaseFlushed(answer_buffer, answer_buffer')
      ]_vars

\* the fragments of the events of one type, in arrival order
FragmentsOf(events, type) ==
    LET of_type == SelectSeq(events, LAMBDA e : e.type = type)
    IN [i \in 1..Len(of_type) |-> of_type[i].content]

\* C9: on a fresh handler fed n >= 1 ModelThinking events and then m >= 1
\* ModelAnswer events, the first answer makes the one sink call of the stream,
\* under think with the n thinking fragments concatenated in order, before the
\* answer fragment is appended; from then on the thinking buffer is empty and
\* the answer buffer holds exactly the answer fragments, none of them saved.
C9_ThinkingThenAnswer ==
    current_state = "model_answer" =>
        /\ sink = << [category |-> "think",
                      payload |-> PyString(Join(FragmentsOf(received, "model_thinking")))] >>
        /\ thinking_buffer = <<>>
        /\ answer_buffer = FragmentsOf(received, "model_answer")

\* two thinking fragments were flushed as one payload and two answers wait
C9_Witness ==
    /\ current_state = "model_answer"
    /\ Len(FragmentsOf(received, "model_thinking")) = 2
    /\ Len(answer_buffer) = 2
    /\ Len(sink) = 1 /\ Len(sink[1].payload.s) = 2

\* the sink calls a flush of the two buffers has to make
FlushCalls(thinking, answer, think_type, answer_type) ==
    (IF thinking # <<>>
     THEN << [category |-> think_type, payload |-> PyString(Join(thinking))] >>
     ELSE <<>>)
    \o (IF answer # <<>>
        THEN << [category |-> answer_type, payload |-> PyString(Join(answer))] >>
        ELSE <<>>)

\* C10: a flush makes no sink call for an empty buffer and one call, carrying
\* the whole buffer as one payload, for a non-empty one, and leaves both
\* buffers empty; a second flush, or a second finalize(), right after makes no
\* sink call.
C10_FlushOnce ==
    LET flushed == save_and_clear_buffers(Self, "sub_agent_think", "sub_agent_answer")
        finalized == finalize(Self)
    IN /\ flushed.sink
            = sink \o FlushCalls(thinking_buffer, answer_buffer,
                                 "sub_agent_think", "sub_agent_answer")
       /\ flushed.thinking_buffer = <<>> /\ flushed.answer_buffer = <<>>
       /\ save_and_clear_buffers(flushed, "think", "answer") = flushed
       /\ finalized.sink = sink \o FlushCalls(thinking_buffer, answer_buffer, "think", "answer")
       /\ finalized.thinking_buffer = <<>> /\ finalized.answer_buffer = <<>>
       /\ finalize(finalized) = finalized
       /\ Finalized => finalized.sink = sink

\* finalize() has just flushed both buffers, which an error event had left
\* filled side by side
C10_Witness ==
    /\ Finalized
    /\ steps = 4
    /\ Len(received) = 2
    /\ Len(sink) = 2
    /\ sink[1].category = "think" /\ sink[2].category = "answer"
    /\ Len(console) >= 3
    /\ console[3].op = "print" /\ console[3].panel.kind = "error_from_stream"

\* the type tag of the operation op, "" for a call that is not an event
TypeOf(op) == DictGet(op, "type", "")

\* what this step appended to the sink and to the console
NewSaves == Since(sink', Len(sink))
NewConsole == Since(console', Len(console))

\* C11: after every SubAgentEnd event both text buffers are empty, what they
\* held having been saved under sub_agent_think / sub_agent_answer, and neither
\* the content region nor the tool region is active.
C11_EndLeavesClean ==
    [][ TypeOf(last') = "sub_agent_end" =>
          /\ thinking_buffer' = <<>>
          /\ answer_buffer' = <<>>
          /\ SelectSeq(NewSaves, LAMBDA e : e.category # "sub_agent")
                = FlushCalls(thinking_buffer, answer_buffer,
                             "sub_agent_think", "sub_agent_answer")
          /\ current_live' = NoLive
          /\ tools_live' = NoLive
      ]_vars

\* C12: every SubAgentEnd event with content c makes exactly one sink call
\* under sub_agent, carrying the whole of c whatever its length, as the last
\* sink call of the event, after the sub_agent_think / sub_agent_answer calls
\* of its flush; the panel it prints shows c when c has at most 500 characters
\* and the first 500 characters of c followed by "..." when it has more.
C12_EndSavesFull ==
    [][ TypeOf(last') = "sub_agent_end" =>
          LET c == last'.content
              n == Len(NewSaves)
              m == Len(NewConsole)
          IN /\ n >= 1
             /\ NewSaves[n] = [category |-> "sub_agent", payload |-> PyString(c)]
             /\ \A i \in 1..(n - 1) :
                   NewSaves[i].category \in {"sub_agent_think", "sub_agent_answer"}
             /\ m >= 1
             /\ NewConsole[m].op = "print"
             /\ NewConsole[m].panel.kind = "sub_agent_complete"
             /\ NewConsole[m].panel.markdown
                   = (IF Len(c) > 500 THEN SubSeq(c, 1, 500) \o "..." ELSE c)
             /\ \A i \in 1..(m - 1) : NewConsole[i].op # "print"
      ]_vars

\* a sub-agent's thinking was flushed and then its final output of 501
\* characters saved whole, the panel showing 500 of them and the marker
C12_Witness ==
    /\ TypeOf(last) = "sub_agent_end"
    /\ Len(last.content) = 501
    /\ Len(sink) = 2
    /\ sink[1].category = "sub_agent_think"
    /\ sink[2] = [category |-> "sub_agent", payload |-> PyString(last.content)]
    /\ Len(console[Len(console)].panel.markdown) = 503

\* C13: after every SubAgentStart event, also one that arrives in a tool_call
\* or tool_result phase during which a content region is still active, neither
\* the content region nor the tool region is active, and the regions are
\* stopped before the banner is printed.
C13_StartTearsDown ==
    [][ TypeOf(last') = "sub_agent_start" =>
          LET m == Len(NewConsole)
          IN /\ current_live' = NoLive
             /\ tools_live' = NoLive
             /\ m >= 1
             /\ NewConsole[m].op = "print"
             /\ NewConsole[m].panel.kind = "sub_agent_start"
             /\ \A i \in 1..(m - 1) : NewConsole[i].op = "live_stop"
      ]_vars

\* C14: an Error event leaves both live regions inactive, prints one error
\* panel after stopping them, makes no sink call and leaves the tool map, the
\* pending-result cache, both text buffers and the phase as they were; the
\* handler then goes on as usual: a ModelThinking fragment delivered next is
\* appended to the thinking buffer as kept and shown in a new content region.
C14_ErrorOnlyTearsDown ==
    [][ TypeOf(last') = "error" =>
          LET m == Len(NewConsole)
              next == handle_response(Self', [type |-> "model_thinking", content |-> "a"])
          IN /\ current_live' = NoLive
             /\ tools_live' = NoLive
             /\ m >= 1
             /\ NewConsole[m] = [op |-> "print",
                                 panel |-> [kind |-> "error_from_stream",
                                            text |-> last'.content]]
             /\ \A i \in 1..(m - 1) : NewConsole[i].op = "live_stop"
             /\ sink' = sink
             /\ tool_states' = tool_states
             /\ pending_results' = pending_results
             /\ thinking_buffer' = thinking_buffer
             /\ answer_buffer' = answer_buffer
             /\ current_state' = current_state
             /\ next.thinking_buffer = Append(thinking_buffer, "a")
             /\ next.current_live
                   = Live(ThinkingPanel("Model Thinking", next.thinking_buffer), FALSE)
             /\ next.sink = sink
      ]_vars

\* an error event has stopped a content region and a tool region that were
\* both active, with text in a buffer, a pending record and a cached result
C14_Witness ==
    /\ TypeOf(last) = "error"
    /\ Len(console) >= 3
    /\ console[Len(console) - 2] = [op |-> "live_stop", region |-> "tools"]
    /\ console[Len(console) - 1] = [op |-> "live_stop", region |-> "content"]
    /\ thinking_buffer # <<>>
    /\ \E k \in ToolIds : IsPending(tool_states, k)
    /\ DOMAIN pending_results # {}

\* op is a tool event whose content json.loads rejects
IsMalformedStep(op) ==
    /\ TypeOf(op) \in CallTypes \cup ResultTypes
    /\ ~op.content.wf

\* C15: a tool-call or tool-result event (top-level or sub-agent) whose payload
\* is malformed JSON prints an error panel and changes nothing else: the tool
\* map, the pending-result cache, both text buffers, the phase and both live
\* regions are after the event what they were before it, and no sink call is
\* made.
C15_MalformedIsLocal ==
    [][ IsMalformedStep(last') =>
          /\ Len(NewConsole) = 1
          /\ NewConsole[1].op = "print"
          /\ NewConsole[1].panel.kind = "error"
          /\ sink' = sink
          /\ tool_states' = tool_states
          /\ pending_results' = pending_results
          /\ thinking_buffer' = thinking_buffer
          /\ answer_buffer' = answer_buffer
          /\ current_state' = current_state
          /\ current_live' = current_live
          /\ tools_live' = tools_live
      ]_vars

KnownTypes ==
    {"model_thinking", "model_answer", "tool_call", "tool_result",
     "sub_agent_start", "sub_agent_end", "sub_agent_thinking", "sub_agent_answer",
     "sub_agent_tool_call", "sub_agent_tool_result", "error"}

\* op is a response of the stream, not a call of finalize() or reset()
IsEvent(op) == "call" \notin DOMAIN op

\* the one handler registered for the tag of response, applied to s
TheHandler(s, response) ==
    LET tag == response.type
        content == DictGet(response, "content", "")
        subagent == DictGet(response, "subagent", "SubAgent")
    IN CASE tag = "model_thinking" -> handle_model_thinking(s, content)
         [] tag = "model_answer" -> handle_model_answer(s, content)
         [] tag = "tool_call" -> handle_tool_call(s, content)
         [] tag = "tool_result" -> handle_tool_result(s, content)
         [] tag = "sub_agent_start" -> handle_sub_agent_start(s, response)
         [] tag = "sub_agent_end" -> handle_sub_agent_end(s, content)
         [] tag = "sub_agent_thinking" -> handle_sub_agent_thinking(s, content, subagent)
         [] tag = "sub_agent_answer" -> handle_sub_agent_answer(s, content, subagent)
         [] tag = "sub_agent_tool_call" -> handle_sub_agent_tool_call(s, content)
         [] tag = "sub_agent_tool_result" -> handle_sub_agent_tool_result(s, content)
         [] tag = "error" -> handle_error(s, content)

\* C16: handle_response with None, with an event that has no type tag or an
\* empty one, or with an event whose tag is none of the eleven known tags
\* leaves the handler as it was (tool map, cache, buffers, phase, both regions),
\* prints nothing and makes no sink call; with a known tag it does what the one
\* handler of that tag does.
C16_UnknownIgnored ==
    [][ IsEvent(last') =>
          IF TypeOf(last') \in KnownTypes
          THEN Self' = TheHandler(Self, last')
          ELSE Self' = Self
      ]_vars

\* an event with a tag of no handler has been passed over while a content
\* region was showing buffered text and a tool result was cached
C16_Witness ==
    /\ TypeOf(last) = "model_usage"
    /\ current_live # NoLive
    /\ thinking_buffer # <<>>
    /\ DOMAIN pending_results # {}
    /\ console = << [op |-> "live_start", region |-> "content"] >>

\* the number of regions of one kind that log has started and not stopped
ActiveRegions(log, region) ==
    Cardinality({i \in 1..Len(log) : log[i] = [op |-> "live_start", region |-> region]})
    - Cardinality({i \in 1..Len(log) : log[i] = [op |-> "live_stop", region |-> region]})

\* the content phase whose text a content region displays
PhaseShown(live) ==
    CASE live.renderable.title = "Model Thinking" -> "model_thinking"
      [] live.renderable.title = "Model Answer" -> "model_answer"
      [] live.renderable.title = "coder Thinking" -> "sub_agent_thinking"
      [] live.renderable.title = "coder Answer" -> "sub_agent_answer"

\* log stops the content region and later starts one
StopsThenStarts(log) ==
    \E i, j \in 1..Len(log) :
        /\ i < j
        /\ log[i] = [op |-> "live_stop", region |-> "content"]
        /\ log[j] = [op |-> "live_start", region |-> "content"]

\* C17: at every instant at most one content region and at most one tool
\* region is started and not stopped, and these are the regions the handler
\* holds; a content event of a phase other than the one whose text the active
\* content region displays stops that region before it starts a new one, and a
\* region that is kept over an event goes on displaying the same phase.
C17_OneRegionEach ==
    [][ /\ \A n \in 0..Len(console') :
              /\ ActiveRegions(SubSeq(console', 1, n), "content") \in {0, 1}
              /\ ActiveRegions(SubSeq(console', 1, n), "tools") \in {0, 1}
        /\ ActiveRegions(console', "content") = (IF current_live' # NoLive THEN 1 ELSE 0)
        /\ ActiveRegions(console', "tools") = (IF tools_live' # NoLive THEN 1 ELSE 0)
        /\ (/\ TypeOf(last') \in ContentTypes
            /\ current_live # NoLive
            /\ PhaseShown(current_live) # last'.type)
              => /\ StopsThenStarts(NewConsole)
                 /\ PhaseShown(current_live') = last'.type
        /\ (/\ current_live # NoLive
            /\ current_live' # NoLive
            /\ \A i \in 1..Len(NewConsole) : DictGet(NewConsole[i], "region", "") # "content")
              => PhaseShown(current_live') = PhaseShown(current_live)
      ]_vars

\* a sub-agent answer has arrived while the region of the model's thinking
\* was still active in a tool_result phase: that region was stopped and a new
\* one started
C17_Witness ==
    /\ steps = 3
    /\ TypeOf(last) = "sub_agent_answer"
    /\ received[1].type = "model_thinking"
    /\ DOMAIN pending_results # {}
    /\ console = << [op |-> "live_start", region |-> "content"],
                    [op |-> "live_stop", region |-> "content"],
                    [op |-> "live_start", region |-> "content"] >>
    /\ PhaseShown(current_live) = "sub_agent_answer"

\* C18: after every well-formed tool-call or tool-result event (top-level or
\* sub-agent), if at least one record of the tool map is pending then the tool
\* region is active and shows all pending records; also after a call that was
\* completed at once from the pending-result cache while other records were
\* pending.
C18_RegionTracksPending ==
    (WellFormedTool(last) /\ \E k \in ToolIds : IsPending(tool_states, k)) =>
        /\ tools_live # NoLive
        /\ tools_live.renderable = PendingPanels(tool_states)

SomePending(d) == \E k \in OdKeys(d) : IsPending(d, k)

\* C19: in every state between events, if the tool region is active then at
\* least one record of the tool map is pending; the event after which no
\* record is pending any more, while one was before, leaves the tool region
\* stopped.
C19_RegionImpliesPending ==
    [][ /\ tools_live' # NoLive => SomePending(tool_states')
        /\ (SomePending(tool_states) /\ ~SomePending(tool_states')) =>
              /\ tools_live' = NoLive
              /\ tools_live # NoLive =>
                    \E i \in 1..Len(NewConsole) :
                        NewConsole[i] = [op |-> "live_stop", region |-> "tools"]
      ]_vars

\* two records were pending and the result of the second has just completed
\* the last of them: the tool region is stopped
C19_Witness ==
    /\ WellFormedTool(last) /\ last.type \in ResultTypes
    /\ OdKeys(tool_states) = ToolIds
    /\ ~SomePending(tool_states)
    /\ Len(completed) = 2
    /\ seen[completed[2]].results # <<>>
    /\ DOMAIN pending_results = {}
    /\ tools_live = NoLive
    /\ ActiveRegions(console, "tools") = 0
    /\ \E i \in 1..Len(console) : console[i] = [op |-> "live_start", region |-> "tools"]

\* the record of id k is complete after this step and was not before it
BecomesComplete(k) == ~IsComplete(tool_states, k) /\ IsComplete(tool_states', k)

\* C20: in the step in which the record of an id becomes complete exactly one
\* completion panel is printed and exactly one sink call under tool_call is
\* made, carrying that record's name and arguments text, whether or not other
\* records are pending; and a ToolResult or SubAgentToolResult event leaves the
\* thinking and answer buffers as they were and saves no text.
C20_CompletionSavedAtOnce ==
    [][ /\ \A k \in ToolIds :
              BecomesComplete(k) =>
                  LET record == OdGet(tool_states', k)
                      panels == SelectSeq(NewConsole, IsCompletePanel)
                  IN /\ Len(panels) = 1
                     /\ panels[1].panel.name = NameDisplay(record)
                     /\ panels[1].panel.args = record.args_str
                     /\ SelectSeq(NewSaves, IsToolSave)
                           = << [category |-> "tool_call",
                                 payload |-> [t |-> "dict", name |-> record.name,
                                              args_str |-> record.args_str]] >>
        /\ TypeOf(last') \in ResultTypes =>
              /\ thinking_buffer' = thinking_buffer
              /\ answer_buffer' = answer_buffer
              /\ \A i \in 1..Len(NewSaves) : NewSaves[i].category = "tool_call"
      ]_vars

\* a result has just completed one of two pending records, with its panel and
\* its sink call, while model thinking text waits unsaved in the buffer
C20_Witness ==
    /\ WellFormedTool(last) /\ last.type \in ResultTypes
    /\ IsComplete(tool_states, EventId(last))
    /\ completed = << EventId(last) >>
    /\ SomePending(tool_states)
    /\ thinking_buffer # <<>>
    /\ Len(sink) = 1 /\ sink[1].category = "tool_call"
    /\ console[Len(console) - 1].op = "print"

\* this step of main() constructs a handler and starts streaming a message
BeginsTurn == pc = "prompt" /\ pc' = "streaming"

\* C21: when main() begins streaming a newly submitted message the tool map
\* and the pending-result cache of the handler it uses are empty, so that a
\* record is completed only by a call event and a result event of its id that
\* both arrived in the turn under way, also when an id is used again.
C21_FreshPerTurn ==
    [][ /\ BeginsTurn => tool_states' = <<>> /\ pending_results' = EmptyDict
        /\ \A k \in ToolIds :
              Count(completed', k) > Count(completed, k) =>
                  /\ SeenOf(seen', k).calls >= 1
                  /\ SeenOf(seen', k).results # <<>>
      ]_vars

\* the second turn has received a result for the id of a call that the first
\* turn left pending: the result is cached and completes nothing
C21_Witness ==
    /\ turns = 2
    /\ TypeOf(last) = "tool_result"
    /\ EventId(last) \in DOMAIN pending_results
    /\ tool_states = <<>>
    /\ completed = <<>>
    /\ \E i \in 1..Len(console) : console[i] = [op |-> "live_start", region |-> "tools"]

\* the exception this step of main() caught, "" if none
Raised(op) == IF DictGet(op, "call", "") \in {"KeyboardInterrupt", "EOFError", "Exception"}
              THEN op.call ELSE ""

\* C22: a KeyboardInterrupt raised while a turn's stream is processed runs
\* finalize() on the handler of that turn, so that both buffers are flushed to
\* the sink and both live regions stopped, before the interruption is reported
\* and the exit confirmation is asked; and a KeyboardInterrupt or an EOFError
\* at the exit confirmation ends the loop.
C22_InterruptFinalizes ==
    [][ /\ (pc = "streaming" /\ Raised(last') = "KeyboardInterrupt") =>
              LET m == Len(NewConsole)
              IN /\ pc' = "confirm"
                 /\ thinking_buffer' = <<>>
                 /\ answer_buffer' = <<>>
                 /\ current_live' = NoLive
                 /\ tools_live' = NoLive
                 /\ NewSaves = FlushCalls(thinking_buffer, answer_buffer, "think", "answer")
                 /\ NewConsole[m].panel.kind = "interrupted"
                 /\ \A i \in 1..(m - 1) : NewConsole[i].op = "live_stop"
        /\ (pc = "confirm" /\ Raised(last') \in {"KeyboardInterrupt", "EOFError"}) =>
              pc' = "done"
      ]_vars

\* a stream was interrupted with text in the buffer and the content region
\* active: the region was stopped and the text saved before the notice, and a
\* second interrupt at the exit confirmation has ended the loop
C22_Witness ==
    /\ pc = "done"
    /\ last = [call |-> "KeyboardInterrupt", at |-> "confirm"]
    /\ sink = << [category |-> "think", payload |-> PyString("a")] >>
    /\ Len(console) >= 3
    /\ console[Len(console) - 2] = [op |-> "live_stop", region |-> "content"]
    /\ console[Len(console) - 1].panel.kind = "interrupted"

\* C23: a KeyboardInterrupt raised while the loop waits for an input line only
\* re-prompts: the loop waits for an input line again, without an exit
\* confirmation.
C23_IdleInterruptReprompts ==
    [][ (pc = "prompt" /\ Raised(last') = "KeyboardInterrupt") => pc' = "prompt" ]_vars

\* C24: an exception other than KeyboardInterrupt raised by parse_command, by
\* the agent stream or by handle_response never ends the session: the error is
\* displayed and the loop waits for the next input line.
C24_ErrorsKeepSession ==
    [][ (\/ pc = "prompt" /\ Raised(last') = "Exception"
         \/ pc = "streaming" /\ Raised(last') \in {"EOFError", "Exception"}) =>
            /\ pc' = "prompt"
            /\ NewConsole # <<>>
            /\ NewConsole[1].panel.kind = "error"
      ]_vars

\* C25: however the processing of a turn's stream ends (the stream is
\* exhausted, a KeyboardInterrupt, or an exception raised by the stream or by
\* handle_response), finalize() has run on the turn's handler when the loop
\* next reads input: both buffers were flushed to the sink and both regions are
\* stopped.
C25_TurnEndFinalizes ==
    [][ (pc = "streaming" /\ pc' \in {"prompt", "confirm"}) =>
            /\ thinking_buffer' = <<>>
            /\ answer_buffer' = <<>>
            /\ current_live' = NoLive
            /\ tools_live' = NoLive
            /\ NewSaves = FlushCalls(thinking_buffer, answer_buffer, "think", "answer")
      ]_vars

\* C26: an iteration of the loop starts an agent stream only for a command
\* that continues to the agent. For EXIT, EMPTY, SHELL, VECTOR, PROMPT_LIST, a
\* PROMPT without success and a VECTOR_RAG without success no stream is started
\* and nothing is submitted; for a PROMPT with success, a VECTOR_RAG with
\* success and a PASSTHROUGH the message submitted is passthrough_msg, and
\* nothing is submitted when passthrough_msg is empty.
C26_OnlyForwardedSubmitted ==
    [][ DictGet(last', "call", "") = "line" =>
            LET cmd == last'.cmd_result
                continues == \/ cmd.cmd_type = "PASSTHROUGH"
                             \/ cmd.cmd_type \in {"PROMPT", "VECTOR_RAG"} /\ cmd.success
            IN IF continues /\ cmd.passthrough_msg # ""
               THEN /\ pc' = "streaming"
                    /\ submitted' = Append(submitted, cmd.passthrough_msg)
               ELSE /\ pc' # "streaming"
                    /\ submitted' = submitted
      ]_vars

\* a retrieval command that succeeded has started the second stream of the
\* session with its passthrough_msg
C26_Witness ==
    /\ DictGet(last, "call", "") = "line"
    /\ last.cmd_result = [cmd_type |-> "VECTOR_RAG", success |-> TRUE,
                          passthrough_msg |-> "hello"]
    /\ pc = "streaming"
    /\ submitted = << "hello", "hello" >>

\* the payloads of a sequence of sink calls, in call order
Payloads(calls) == [i \in 1..Len(calls) |-> calls[i].payload]

\* C27: finalize(), called in any reachable state, leaves both buffers empty
\* and both regions stopped, makes one sink call per non-empty buffer carrying
\* the whole buffer and none for an empty one, prints nothing, and leaves
\* tool_states and pending_results as they were.
C27_FinalizeCleansUp ==
    [][ DictGet(last', "call", "") = "finalize" =>
            /\ thinking_buffer' = <<>>
            /\ answer_buffer' = <<>>
            /\ current_live' = NoLive
            /\ tools_live' = NoLive
            /\ Payloads(NewSaves) =
                   Payloads(FlushCalls(thinking_buffer, answer_buffer, "think", "answer"))
            /\ \A i \in 1..Len(NewConsole) : NewConsole[i].op = "live_stop"
            /\ tool_states' = tool_states
            /\ pending_results' = pending_results
      ]_vars

\* finalize() was called with text in the thinking buffer, the content region
\* active and a result waiting in pending_results
C27_Witness ==
    /\ Finalized
    /\ steps = 3
    /\ sink = << [category |-> "think", payload |-> PyString("a")] >>
    /\ thinking_buffer = <<>>
    /\ current_live = NoLive
    /\ console[Len(console)] = [op |-> "live_stop", region |-> "content"]
    /\ pending_results # EmptyDict

\* no result event of id k has arrived in the states before and after the step
NoResultYet(k) == SeenOf(seen', k).results = <<>>

\* C28: a tool record of an id of which no result event has arrived stays
\* pending: no event of another kind or of another id and no finalize() changes
\* the status of the record, and no completion (panel and tool_call sink call)
\* is made for that id.
C28_PendingWithoutResult ==
    [][ \A k \in ToolIds :
           NoResultYet(k) =>
               /\ IsPending(tool_states, k) => IsPending(tool_states', k)
               /\ ~IsComplete(tool_states', k)
               /\ Count(completed', k) = 0
      ]_vars

\* a call of t1 was followed by text and by finalize(), no result of t1 ever
\* arrived, and the record of t1 is still pending
C28_Witness ==
    /\ Finalized
    /\ steps = 3
    /\ IsPending(tool_states, "t1")
    /\ SeenOf(seen, "t1").calls = 1
    /\ SeenOf(seen, "t1").results = <<>>
    /\ completed = <<>>
    /\ sink = << [category |-> "think", payload |-> PyString("a")] >>

\* the text a content region shows
Rendered(live) ==
    IF live.renderable.kind = "thinking" THEN live.renderable.body
    ELSE live.renderable.markdown

\* C29: within a content phase, that is from the first event of a content
\* type after a phase of another kind through the events of that type that
\* follow, the buffer of the type and the text the region shows are the
\* fragments of the phase joined in arrival order: the first event of a phase
\* leaves its fragment alone in the buffer, a later one appends its fragment,
\* and one that arrives while the region is active does nothing else: it makes
\* no sink call, stops no region and leaves the other buffer and tool_states
\* as they were.
C29_PhaseIsConcatenation ==
    [][ TypeOf(last') \in ContentTypes =>
            LET thinks == TypeOf(last') \in ThinkingTypes
                before == IF thinks THEN thinking_buffer ELSE answer_buffer
                after == IF thinks THEN thinking_buffer' ELSE answer_buffer'
                starts == current_state # TypeOf(last')
            IN /\ after = IF starts THEN << last'.content >>
                                    ELSE Append(before, last'.content)
               /\ (~starts /\ current_live # NoLive) =>
                      /\ NewSaves = <<>>
                      /\ NewConsole = <<>>
                      /\ tools_live' = tools_live
                      /\ tool_states' = tool_states
                      /\ IF thinks THEN answer_buffer' = answer_buffer
                                   ELSE thinking_buffer' = thinking_buffer
               /\ current_live' # NoLive
               /\ Rendered(current_live') = Join(after)
      ]_vars

\* C30: in every state between events the content region is active only in a
\* content phase: when current_state is a tool phase, sub_agent_start or None,
\* current_live is not active.
C30_ContentRegionInContentPhase ==
    current_live # NoLive => current_state \in ContentTypes

\* the last element of a non-empty sequence
Last(seq) == seq[Len(seq)]

\* C31: the completion panel of a tool whose result text has length n shows
\* the first min(n, 1000) characters of it, followed by the truncation marker
\* exactly when n > 1000; the result kept in the record is the whole text of
\* the result received, and the sink call of the completion carries the
\* record's name and arguments text whole.
C31_TruncationIsDisplayOnly ==
    [][ Count(completed', "t1") > Count(completed, "t1") =>
            LET record == OdGet(tool_states', "t1")
                whole == PyStr(Last(SeenOf(seen', "t1").results))
                n == Len(whole)
                panels == SelectSeq(NewConsole, IsCompletePanel)
            IN /\ record.result = PyString(whole)
               /\ Len(panels) = 1
               /\ panels[1].panel.result =
                      IF n > 1000
                      THEN SubSeq(whole, 1, 1000) \o "\n... (truncated)"
                      ELSE whole
               /\ NewSaves = << [category |-> "tool_call",
                                 payload |-> [t |-> "dict", name |-> record.name,
                                              args_str |-> record.args_str]] >>
      ]_vars

\* a result of exactly 1000 characters was shown whole, and a result of 1001
\* characters was shown cut to 1000 characters and the marker while the
\* record keeps all 1001
C31_Witness ==
    /\ steps = 3
    /\ IsComplete(tool_states, "t1")
    /\ Len(OdGet(tool_states, "t1").result.s) = 1001
    /\ \E i \in 1..Len(console) :
          /\ IsCompletePanel(console[i])
          /\ console[i].panel.result = Repeat("y", 1000)
    /\ IsCompletePanel(Last(console))
    /\ Last(console).panel.result = Repeat("z", 1000) \o "\n... (truncated)"

\* C32: reset(), called in any reachable state, leaves the handler as __init__
\* leaves a new one (empty tool_states, pending_results and buffers,
\* current_state None, no content or tool region) and makes no sink call:
\* text in the buffers is discarded.
C32_ResetIsFresh ==
    [][ DictGet(last', "call", "") = "reset" =>
            /\ tool_states' = Fresh.tool_states
            /\ pending_results' = Fresh.pending_results
            /\ thinking_buffer' = Fresh.thinking_buffer
            /\ answer_buffer' = Fresh.answer_buffer
            /\ current_state' = Fresh.current_state
            /\ current_live' = Fresh.current_live
            /\ tools_live' = Fresh.tools_live
            /\ NewSaves = <<>>
            /\ \A i \in 1..Len(NewConsole) : NewConsole[i].op = "live_stop"
      ]_vars

\* reset() was called with a pending record, text in the thinking buffer that
\* was never saved and the content region active
C32_Witness ==
    /\ DictGet(last, "call", "") = "reset"
    /\ steps = 3
    /\ SeenOf(seen, "t1").calls = 1
    /\ received = << [type |-> "model_thinking", content |-> "a"] >>
    /\ sink = <<>>
    /\ tool_states = <<>>
    /\ thinking_buffer = <<>>
    /\ Last(console) = [op |-> "live_stop", region |-> "content"]

\* the sink categories of text
TextCategories == {"think", "answer", "sub_agent_think", "sub_agent_answer"}

\* C33: no sink call under think, answer, sub_agent_think or sub_agent_answer
\* carries the empty text, also when content events arrive whose content is the
\* empty string or is absent.
C33_NoEmptyPayload ==
    \A i \in 1..Len(sink) :
        sink[i].category \in TextCategories => sink[i].payload # PyString("")

\* C34: in every state between events at most one of thinking_buffer and
\* answer_buffer holds text.
C34_OneBufferAtATime ==
    thinking_buffer = <<>> \/ answer_buffer = <<>>

\* the steps that delivered the text events of the given types before step t
ArrivalsBefore(types, t) ==
    {arrived_at[m] : m \in {k \in 1..Len(received) :
                               received[k].type \in types /\ arrived_at[k] < t}}

\* the steps of the events that contributed to the i-th sink call: for a text
\* payload of n fragments, flushed at step t, the n events last appended to
\* its buffer before t; for any other payload the step of the call itself
ContributorsOf(i) ==
    IF sink[i].category \in TextCategories
    THEN LET A == ArrivalsBefore(IF sink[i].category \in ThinkCategories
                                 THEN ThinkingTypes ELSE AnswerTypes, saved_at[i])
             n == Len(sink[i].payload.s)
         IN {a \in A : Cardinality({b \in A : b >= a}) <= n}
    ELSE {saved_at[i]}

\* C35: the sink calls keep the arrival order across categories: if every
\* event that contributed to one persisted item (the fragments of a text
\* payload; for a tool_call record the event that completed it) arrived before
\* every event that contributed to another, the sink call of the first
\* precedes the sink call of the second.
C35_SinkKeepsArrivalOrder ==
    \A i, j \in 1..Len(sink) :
        (\A a \in ContributorsOf(i) : \A b \in ContributorsOf(j) : a < b) => i < j

\* C36: in every state between events no id is a key of both tool_states and
\* pending_results; a result event caches its result only for an id without a
\* record, and a call event leaves no cached result of its id.
C36_RecordOrCache ==
    [][ /\ OdKeys(tool_states') \cap DOMAIN pending_results' = {}
        /\ \A k \in DOMAIN pending_results' :
              (k \notin DOMAIN pending_results \/ pending_results'[k] # pending_results[k])
                  => ~OdHas(tool_states, k)
        /\ (TypeOf(last') \in CallTypes /\ WellFormedTool(last')) =>
              /\ OdHas(tool_states', EventId(last'))
              /\ EventId(last') \notin DOMAIN pending_results'
      ]_vars

\* the results of t1 and t2 were cached and the call of t1 has then taken the
\* result of t1 out of the cache: t1 has a record, t2 a cached result
C36_Witness ==
    /\ steps = 3
    /\ TypeOf(last) \in CallTypes
    /\ EventId(last) = "t1"
    /\ SeenOf(seen, "t1").results # <<>>
    /\ IsComplete(tool_states, "t1")
    /\ DOMAIN pending_results = {"t2"}
    /\ OdKeys(tool_states) = {"t1"}

\* the operations other than tool events that change the handler
LeavesToolActivity(op) ==
    \/ TypeOf(op) \in ContentTypes \cup {"sub_agent_start", "sub_agent_end", "error"}
    \/ DictGet(op, "call", "") \in {"finalize", "reset"}

\* C37: in every state between events the tool region is active only in a
\* tool phase (current_state tool_call, tool_result, sub_agent_tool_call or
\* sub_agent_tool_result); every content event, sub_agent_start,
\* sub_agent_end, error, finalize() and reset() leaves the tool region
\* stopped, also when records are still pending.
C37_ToolRegionInToolPhase ==
    [][ /\ tools_live' # NoLive => current_state' \in ToolPhases
        /\ LeavesToolActivity(last') => tools_live' = NoLive
      ]_vars

\* a content event followed a call that is still pending: the tool region,
\* started by the call, was stopped
C37_Witness ==
    /\ steps = 2
    /\ current_state = "model_thinking"
    /\ IsPending(tool_states, "t1")
    /\ tools_live = NoLive
    /\ console[1] = [op |-> "live_start", region |-> "tools"]
    /\ console[2] = [op |-> "live_stop", region |-> "tools"]

====
